---- MODULE Spec2Model ----
\* A model of the TravelGraph flight assistant: the five-node pipeline of
\* graph_workflow.py over the FlightAssistantState record, with the slot
\* extractor of utility_functions.py computed character by character.
EXTENDS Integers, Sequences, FiniteSets, TLC

\* ---------------------------------------------------------------------
\* Optional values: Python's None is the empty tuple, a value v is <<v>>.
\* ---------------------------------------------------------------------
None == <<>>

Some(v) == <<v>>

\* Python truthiness of an Optional[str] / Optional[int] / Optional[float].
TruthyStr(o) == o # None /\ o[1] # ""

TruthyNum(o) == o # None /\ o[1] # 0

\* ---------------------------------------------------------------------
\* Characters and strings
\* ---------------------------------------------------------------------
Digits == "0123456789"

LowerChars == "abcdefghijklmnopqrstuvwxyz"

UpperChars == "ABCDEFGHIJKLMNOPQRSTUVWXYZ"

\* s[i-1:j] of Python: the slice is clipped to the string.
Slice(s, i, j) ==
    LET lo == IF i < 1 THEN 1 ELSE i
        hi == IF j > Len(s) THEN Len(s) ELSE j
    IN  IF lo > hi THEN "" ELSE SubSeq(s, lo, hi)

\* The character at position i, "" outside the string.
Ch(s, i) == Slice(s, i, i)

IsDigit(c) == \E i \in 1..10 : Ch(Digits, i) = c

IsUpperChar(c) == \E i \in 1..26 : Ch(UpperChars, i) = c

IsLowerChar(c) == \E i \in 1..26 : Ch(LowerChars, i) = c

\* \w of Python's re: letters, digits and the underscore.
IsWordChar(c) == IsDigit(c) \/ IsUpperChar(c) \/ IsLowerChar(c) \/ c = "_"

\* \s of Python's re, over the characters the utterances use.
IsSpaceChar(c) == c = " "

UpperOf(c) ==
    IF IsLowerChar(c)
    THEN Ch(UpperChars, CHOOSE i \in 1..26 : Ch(LowerChars, i) = c)
    ELSE c

LowerOf(c) ==
    IF IsUpperChar(c)
    THEN Ch(LowerChars, CHOOSE i \in 1..26 : Ch(UpperChars, i) = c)
    ELSE c

RECURSIVE StrUpper(_)
StrUpper(s) ==
    IF s = "" THEN ""
    ELSE StrUpper(SubSeq(s, 1, Len(s) - 1)) \o UpperOf(Ch(s, Len(s)))

RECURSIVE StrLower(_)
StrLower(s) ==
    IF s = "" THEN ""
    ELSE StrLower(SubSeq(s, 1, Len(s) - 1)) \o LowerOf(Ch(s, Len(s)))

\* Python's `sub in s`.
Contains(s, sub) ==
    \E i \in 1..(Len(s) - Len(sub) + 1) : SubSeq(s, i, i + Len(sub) - 1) = sub

\* \b at the gap before position i of s (positions 1..Len(s)+1).
WordBoundary(s, i) ==
    LET before == i > 1 /\ IsWordChar(Ch(s, i - 1))
        after  == i <= Len(s) /\ IsWordChar(Ch(s, i))
    IN  before # after

\* The number of consecutive digits of s from position i on.
RECURSIVE DigitRun(_, _)
DigitRun(s, i) ==
    IF i <= Len(s) /\ IsDigit(Ch(s, i)) THEN 1 + DigitRun(s, i + 1) ELSE 0

RECURSIVE SpaceRun(_, _)
SpaceRun(s, i) ==
    IF i <= Len(s) /\ IsSpaceChar(Ch(s, i)) THEN 1 + SpaceRun(s, i + 1) ELSE 0

\* int() of a string of decimal digits.
RECURSIVE StrToInt(_)
StrToInt(s) ==
    IF s = "" THEN 0
    ELSE 10 * StrToInt(SubSeq(s, 1, Len(s) - 1))
         + ((CHOOSE i \in 1..10 : Ch(Digits, i) = Ch(s, Len(s))) - 1)

\* n in decimal, zero-padded to at least w digits (strftime's %Y, %m, %d).
RECURSIVE IntToStr(_, _)
IntToStr(n, w) ==
    IF n < 10 /\ w <= 1 THEN Ch(Digits, n + 1)
    ELSE IntToStr(n \div 10, w - 1) \o Ch(Digits, (n % 10) + 1)

\* ---------------------------------------------------------------------
\* Calendar dates: datetime.strptime / strftime
\* ---------------------------------------------------------------------
IsLeapYear(y) == (y % 4 = 0 /\ y % 100 # 0) \/ y % 400 = 0

DaysInMonth(y, m) ==
    IF m = 2 THEN (IF IsLeapYear(y) THEN 29 ELSE 28)
    ELSE IF m \in {4, 6, 9, 11} THEN 30 ELSE 31

\* datetime.datetime.strptime(s, fmt) for the three formats the code uses:
\* None stands for ValueError, Some([y, m, d]) for the parsed date.
\* %Y takes exactly four digits, %m and %d one or two; the whole string must
\* be consumed; the month is 1..12, the day a day of that month, the year >= 1.
strptime(s, fmt) ==
    LET sep   == IF fmt = "%m/%d/%Y" THEN "/" ELSE "-"
        yFirst == fmt = "%Y-%m-%d"
        a == DigitRun(s, 1)
        b == DigitRun(s, a + 2)
        c == DigitRun(s, a + b + 3)
        shape == /\ Ch(s, a + 1) = sep
                 /\ Ch(s, a + b + 2) = sep
                 /\ a + b + c + 2 = Len(s)
                 /\ IF yFirst THEN a = 4 /\ b \in {1, 2} /\ c \in {1, 2}
                              ELSE a \in {1, 2} /\ b \in {1, 2} /\ c = 4
        n1 == StrToInt(SubSeq(s, 1, a))
        n2 == StrToInt(SubSeq(s, a + 2, a + b + 1))
        n3 == StrToInt(SubSeq(s, a + b + 3, a + b + c + 2))
        y == IF yFirst THEN n1 ELSE n3
        m == IF yFirst THEN n2 ELSE n1
        d == IF yFirst THEN n3 ELSE n2
    IN  IF shape /\ y >= 1 /\ m \in 1..12 /\ d >= 1 /\ d <= DaysInMonth(y, m)
        THEN Some([y |-> y, m |-> m, d |-> d])
        ELSE None

\* date.strftime("%Y-%m-%d"), with %Y written in four digits.
strftime(date) ==
    IntToStr(date.y, 4) \o "-" \o IntToStr(date.m, 2) \o "-" \o IntToStr(date.d, 2)

\* ---------------------------------------------------------------------
\* utility_functions.extract_flight_info
\* ---------------------------------------------------------------------
\* re.findall(r'\b[A-Z]{3}\b', s) from position i on.
RECURSIVE FindCodes(_, _)
FindCodes(s, i) ==
    IF i > Len(s) THEN <<>>
    ELSE IF /\ i + 2 <= Len(s)
            /\ \A k \in i..(i + 2) : IsUpperChar(Ch(s, k))
            /\ WordBoundary(s, i)
            /\ WordBoundary(s, i + 3)
         THEN <<SubSeq(s, i, i + 2)>> \o FindCodes(s, i + 3)
         ELSE FindCodes(s, i + 1)

\* The three date patterns, in the order of date_patterns.
DatePatterns == <<"YYYY-MM-DD", "MM/DD/YYYY", "MM-DD-YYYY">>

\* The length of the match of date pattern p at position i of s, 0 for none.
DateMatchLen(s, i, p) ==
    LET sep == IF p = "MM/DD/YYYY" THEN "/" ELSE "-"
        a == DigitRun(s, i)
        b == DigitRun(s, i + a + 1)
        c == DigitRun(s, i + a + b + 2)
        ok == /\ WordBoundary(s, i)
              /\ Ch(s, i + a) = sep
              /\ Ch(s, i + a + b + 1) = sep
              /\ WordBoundary(s, i + a + b + c + 2)
              /\ IF p = "YYYY-MM-DD" THEN a = 4 /\ b = 2 /\ c = 2
                                     ELSE a \in {1, 2} /\ b \in {1, 2} /\ c = 4
    IN  IF ok THEN a + b + c + 2 ELSE 0

\* re.findall(pattern, s)[0]: the leftmost match of p in s, "" for no match.
FirstDateMatch(s, p) ==
    LET hits == {i \in 1..Len(s) : DateMatchLen(s, i, p) > 0}
    IN  IF hits = {} THEN ""
        ELSE LET i == CHOOSE h \in hits : \A g \in hits : h <= g
             IN  SubSeq(s, i, i + DateMatchLen(s, i, p) - 1)

\* Lines 95-100: the format is chosen from the matched text.
ParseMatchedDate(m) ==
    IF Contains(m, "/") THEN strptime(m, "%m/%d/%Y")
    ELSE IF Contains(m, "-") /\ DigitRun(m, 1) <= 2 THEN strptime(m, "%m-%d-%Y")
    ELSE strptime(m, "%Y-%m-%d")

\* A faulty variant of ExtractDate: a first match that does not parse ends
\* the loop instead of moving to the next pattern.
RECURSIVE ExtractDate_NoFallThrough(_, _)
ExtractDate_NoFallThrough(s, k) ==
    IF k > Len(DatePatterns) THEN None
    ELSE LET m == FirstDateMatch(s, DatePatterns[k])
         IN  IF m = "" THEN ExtractDate_NoFallThrough(s, k + 1)
             ELSE IF ParseMatchedDate(m) # None
                  THEN Some(strftime(ParseMatchedDate(m)[1]))
                  ELSE None

\* The loop over date_patterns from pattern k on: the first pattern whose
\* first match parses gives the date; a ValueError moves to the next pattern.
RECURSIVE ExtractDate(_, _)
ExtractDate(s, k) ==
    IF k > Len(DatePatterns) THEN None
    ELSE LET m == FirstDateMatch(s, DatePatterns[k])
         IN  IF m # "" /\ ParseMatchedDate(m) # None
             THEN Some(strftime(ParseMatchedDate(m)[1]))
             ELSE ExtractDate(s, k + 1)

ExtractTripType(low) ==
    IF Contains(low, "round trip") \/ Contains(low, "return")
       \/ Contains(low, "round-trip")
    THEN Some("round_trip")
    ELSE IF Contains(low, "one way") \/ Contains(low, "one-way")
         THEN Some("one_way")
         ELSE None

\* re.search(r'(\d+)\s*day', low): int of group 1 of the leftmost match.
ExtractDuration(low) ==
    LET hit(i) == LET r == DigitRun(low, i)
                      w == SpaceRun(low, i + r)
                  IN  r > 0 /\ Slice(low, i + r + w, i + r + w + 2) = "day"
        hits == {i \in 1..Len(low) : hit(i)}
    IN  IF hits = {} THEN None
        ELSE LET i == CHOOSE h \in hits : \A g \in hits : h <= g
             IN  Some(StrToInt(SubSeq(low, i, i + DigitRun(low, i) - 1)))

ExtractCabin(low) ==
    IF Contains(low, "business") THEN Some("BUSINESS")
    ELSE IF Contains(low, "first") THEN Some("FIRST")
    ELSE IF Contains(low, "economy") THEN Some("ECONOMY")
    ELSE None

\* The info dict: a key the code leaves out of the dict is None here.
extract_flight_info(user_input) ==
    LET airport_codes == FindCodes(StrUpper(user_input), 1)
        low == StrLower(user_input)
    IN  [origin         |-> IF Len(airport_codes) >= 2
                            THEN Some(airport_codes[1]) ELSE None,
         destination    |-> IF Len(airport_codes) >= 2
                            THEN Some(airport_codes[2]) ELSE None,
         departure_date |-> ExtractDate(user_input, 1),
         trip_type      |-> ExtractTripType(low),
         duration       |-> ExtractDuration(low),
         cabin_class    |-> ExtractCabin(low)]

\* ---------------------------------------------------------------------
\* The state
\* ---------------------------------------------------------------------
VARIABLES
    state,     \* the FlightAssistantState record threaded through the nodes
    pc,        \* the node the graph runs next, "idle" between invocations
    now,       \* time.time()
    env,       \* which credentials os.getenv finds
    wire,      \* the requests of the current pass to external services, each
               \* with the answer it got
    outcome,   \* the branch each node of the current pass took
    turns      \* how many passes have been started

vars == <<state, pc, now, env, wire, outcome, turns>>

\* The bound of the model: how many passes are run.
MaxTurns == 2

\* The 5 minute buffer of fetch_amadeus_token_node.
TokenBuffer == 300

\* max_flight_offers as call_flight_offers_api_node passes it.
MaxFlightOffers == 3

\* Seconds that pass between two invocations.
TimeSteps == {100, 300}

\* What the token endpoint answers in pass n: the request fails in transport,
\* comes back with an error status, or carries a JSON body that may lack
\* either key. A token the endpoint issues is a fresh one.
ExpiresIn == {600}

TokenResponses(n) ==
    {[kind |-> k, access_token |-> None, expires_in |-> None] :
        k \in {"network_error", "http_error"}}
    \cup {[kind |-> "ok", access_token |-> a, expires_in |-> e] :
            a \in {None, Some("token" \o IntToStr(n, 1))},
            e \in {None} \cup {Some(x) : x \in ExpiresIn}}

\* What the flight-offers endpoint answers; data = None is a body without
\* the "data" key.
OfferLists == {<<>>, <<"offer1">>, <<"offer2", "offer3", "offer4", "offer5">>}

SearchResponses ==
    {[kind |-> k, data |-> None] : k \in {"network_error", "http_error"}}
    \cup {[kind |-> "ok", data |-> d] :
            d \in {None} \cup {Some(l) : l \in OfferLists}}

\* What the summarizer meets: an exception before the request is sent (the
\* client cannot be built, the prompt cannot be encoded), a chat-completion
\* call that raises, or one that returns a text (a new one in each pass n).
LlmResponses(n) ==
    {[kind |-> "build_error", content |-> None],
     [kind |-> "error", content |-> None],
     [kind |-> "ok", content |-> Some("analysis" \o IntToStr(n, 1))]}

\* str(e) of the exception a failed request raises; it can be empty.
ErrorText(kind) ==
    CASE kind = "network_error"   -> ""
      [] kind = "http_error"      -> "500 Server Error"
      [] kind = "no_access_token" -> "'access_token'"
      [] kind = "no_expires_in"   -> "'expires_in'"
      [] kind = "format_error"    -> "time data does not match format '%Y-%m-%d'"
      [] OTHER                    -> "error"

\* The utterances a user sends.
Utterances ==
    {"JFK LHR 2025-06-01 round trip",
     "CAI DXB 7/4/2025 one way",
     "round trip 5 days",
     "business class please",
     "0 days"}

\* The departure dates a state handed to the workflow may carry: dates in
\* ISO form, and the text of an utterance as app.py, line 177, stores it.
StartDates == {"2025-06-01", "2024-12-30", "june 2025"}

\* An utterance that names no field.
Hello == "hello"

\* The bound on the utterances built from words: how many words they have.
MaxWords == 3

\* The words joined by single spaces.
RECURSIVE Join(_)
Join(ws) ==
    IF Len(ws) = 1 THEN ws[1] ELSE ws[1] \o " " \o Join(Tail(ws))

\* The utterances of up to MaxWords words of W.
PhrasesOver(W) == {Join(ws) : ws \in UNION {[1..k -> W] : k \in 1..MaxWords}}

\* Utterances of airport codes and of the short words that surround them.
CodeWords == {"JFK", "LHR", "fly", "to"}

CodePhrases == PhrasesOver(CodeWords)

\* The utterance of the end-to-end scenario.
Scenario == "I want to fly from JFK to LHR on 2025-07-10, business class, one way"

\* Utterances of dates in the three notations, real and impossible ones.
DateWords ==
    {"2025-06-01", "2025-02-30", "7/4/2025", "13/45/2025", "12-25-2025",
     "02-30-2025"}

DatePhrases == PhrasesOver(DateWords)

\* The utterances a conversation may open with.
Openings == CodePhrases \cup DatePhrases \cup {Scenario}

\* Every utterance the model extracts from.
AllUtterances == Utterances \cup {Hello} \cup Openings

\* FlightAssistantState(): every field at its default.
DefaultState ==
    [origin |-> None, destination |-> None, departure_date |-> None,
     return_date |-> None, trip_type |-> "one_way", duration |-> None,
     travelers |-> 1, cabin_class |-> "ECONOMY", currency |-> "USD",
     amadeus_token |-> None, token_expires_at |-> None, flight_offers |-> <<>>,
     llm_analysis |-> None, messages |-> <<>>, current_step |-> "greeting",
     missing_fields |-> <<>>, conversation_context |-> "", last_error |-> None]

NotRun == [token |-> "not_run", search |-> "not_run", llm |-> "not_run"]

Init ==
    /\ state = DefaultState
    /\ pc = "idle"
    /\ now = 0
    /\ env \in [amadeus : BOOLEAN, openai : BOOLEAN]
    /\ wire = <<>>
    /\ outcome = NotRun
    /\ turns = 0

\* ---------------------------------------------------------------------
\* graph_workflow.create_flight_assistant_graph: the edges of the graph
\* ---------------------------------------------------------------------
\* A faulty variant of NextNode: the summarizer leads straight to END.
NextNode_SkipsDisplay(n) ==
    CASE n = "collect_input"   -> "fetch_token"
      [] n = "fetch_token"     -> "search_flights"
      [] n = "search_flights"  -> "analyze_results"
      [] n = "analyze_results" -> "idle"
      [] n = "display_results" -> "idle"

\* The node that follows node n; "idle" stands for END.
NextNode(n) ==
    CASE n = "collect_input"   -> "fetch_token"
      [] n = "fetch_token"     -> "search_flights"
      [] n = "search_flights"  -> "analyze_results"
      [] n = "analyze_results" -> "display_results"
      [] n = "display_results" -> "idle"

EntryPoint == "collect_input"

\* ---------------------------------------------------------------------
\* The surrounding application
\* ---------------------------------------------------------------------
\* One pass of the pipeline starts at the entry point, some time after the
\* last one.
StartPass ==
    /\ pc = "idle"
    /\ turns < MaxTurns
    /\ pc' = EntryPoint
    /\ turns' = turns + 1
    /\ \E dt \in TimeSteps : now' = now + dt
    /\ wire' = <<>>
    /\ outcome' = NotRun
    /\ UNCHANGED env

\* A user turn of app.py: the message is appended to the state's message log
\* and the workflow is invoked on the state. The pass is started for every
\* message: app.py's own keyword slot filling (lines 173-196) and its test of
\* the fields before workflow.invoke (lines 205-208) are left out, so that the
\* pipeline is entered with complete and with incomplete states alike.
UserTurn ==
    /\ StartPass
    /\ \E u \in Utterances :
         state' = [state EXCEPT
                     !.messages = Append(@, [role |-> "user", content |-> u])]

\* workflow.invoke(state) on a state that holds no message yet.
Invoke ==
    /\ StartPass
    /\ state.messages = <<>>
    /\ UNCHANGED state

\* ---------------------------------------------------------------------
\* graph_nodes.collect_user_input_node
\* ---------------------------------------------------------------------
\* for key, value in extracted_info.items(): setattr(state, key, value)
ApplyInfo(st, info) ==
    [st EXCEPT
       !.origin         = IF info.origin = None THEN @ ELSE info.origin,
       !.destination    = IF info.destination = None THEN @ ELSE info.destination,
       !.departure_date = IF info.departure_date = None THEN @
                          ELSE info.departure_date,
       !.trip_type      = IF info.trip_type = None THEN @ ELSE info.trip_type[1],
       !.duration       = IF info.duration = None THEN @ ELSE info.duration,
       !.cabin_class    = IF info.cabin_class = None THEN @
                          ELSE info.cabin_class[1]]

\* extract_flight_info(latest_message, state), tabulated over the utterances.
ExtractedInfo == [u \in AllUtterances |-> extract_flight_info(u)]

RequiredFields == <<"origin", "destination", "departure_date">>

\* A faulty variant of MissingFields: lines 41-42 are missing.
MissingFields_NoDuration(st) ==
    SelectSeq(RequiredFields, LAMBDA f : ~TruthyStr(st[f]))

\* Lines 33-42: the required fields that are falsy, then duration for a
\* round trip without one.
MissingFields(st) ==
    SelectSeq(RequiredFields, LAMBDA f : ~TruthyStr(st[f]))
    \o (IF st.trip_type = "round_trip" /\ ~TruthyNum(st.duration)
        THEN <<"duration">> ELSE <<>>)

\* A faulty variant of CollectResult: without messages the node answers with
\* a fresh FlightAssistantState instead of the one it was given.
CollectResult_FreshGreeting(st) ==
    IF st.messages = <<>>
    THEN [DefaultState EXCEPT !.current_step = "greeting"]
    ELSE LET latest_message == st.messages[Len(st.messages)].content
             updated == ApplyInfo(st, ExtractedInfo[latest_message])
             missing == MissingFields(updated)
         IN  [updated EXCEPT
                !.missing_fields = missing,
                !.current_step = IF missing # <<>> THEN "collect_missing"
                                 ELSE "ready_to_search"]

CollectResult(st) ==
    IF st.messages = <<>>
    THEN [st EXCEPT !.current_step = "greeting"]
    ELSE LET latest_message == st.messages[Len(st.messages)].content
             updated == ApplyInfo(st, ExtractedInfo[latest_message])
             missing == MissingFields(updated)
         IN  [updated EXCEPT
                !.missing_fields = missing,
                !.current_step = IF missing # <<>> THEN "collect_missing"
                                 ELSE "ready_to_search"]

collect_user_input_node ==
    /\ pc = "collect_input"
    /\ state' = CollectResult(state)
    /\ pc' = NextNode("collect_input")
    /\ UNCHANGED <<now, env, wire, outcome, turns>>

\* ---------------------------------------------------------------------
\* graph_nodes.fetch_amadeus_token_node
\* ---------------------------------------------------------------------
\* A faulty variant of TokenStillValid: a token with exactly the buffer left
\* counts as still good.
TokenStillValid_Inclusive(st, t) ==
    /\ TruthyStr(st.amadeus_token)
    /\ TruthyNum(st.token_expires_at)
    /\ t <= st.token_expires_at[1] - TokenBuffer

\* Lines 58-59: a cached token that is still good for more than the buffer.
TokenStillValid(st, t) ==
    /\ TruthyStr(st.amadeus_token)
    /\ TruthyNum(st.token_expires_at)
    /\ t < st.token_expires_at[1] - TokenBuffer

\* What the answer r of the token endpoint amounts to.
TokenOutcome(r) ==
    IF r.kind # "ok" THEN r.kind
    ELSE IF r.access_token = None THEN "no_access_token"
    ELSE IF r.expires_in = None THEN "no_expires_in"
    ELSE "fetched"

\* Lines 78-87: the assignments run in order, and the except clause keeps
\* what was assigned before the exception.
TokenFetched(st, t, r) ==
    LET o == TokenOutcome(r)
        failed == Some("Failed to fetch Amadeus token: " \o ErrorText(o))
    IN  CASE o = "fetched" ->
               [st EXCEPT !.amadeus_token = r.access_token,
                          !.token_expires_at = Some(t + r.expires_in[1]),
                          !.last_error = None]
          [] o = "no_expires_in" ->
               [st EXCEPT !.amadeus_token = r.access_token,
                          !.last_error = failed]
          [] OTHER -> [st EXCEPT !.last_error = failed]

\* Lines 67-69.
TokenNotConfigured(st) ==
    [st EXCEPT !.last_error = Some("Amadeus API credentials not configured")]

TokenRequest(r) == [endpoint |-> "token", response |-> r]

fetch_amadeus_token_node ==
    /\ pc = "fetch_token"
    /\ \/ /\ TokenStillValid(state, now)
          /\ outcome' = [outcome EXCEPT !.token = "reused"]
          /\ UNCHANGED <<state, wire>>
       \/ /\ ~TokenStillValid(state, now)
          /\ ~env.amadeus
          /\ state' = TokenNotConfigured(state)
          /\ outcome' = [outcome EXCEPT !.token = "not_configured"]
          /\ UNCHANGED wire
       \/ /\ ~TokenStillValid(state, now)
          /\ env.amadeus
          /\ \E r \in TokenResponses(turns) :
               /\ wire' = Append(wire, TokenRequest(r))
               /\ state' = TokenFetched(state, now, r)
               /\ outcome' = [outcome EXCEPT !.token = TokenOutcome(r)]
    /\ pc' = NextNode("fetch_token")
    /\ UNCHANGED <<now, env, turns>>

\* ---------------------------------------------------------------------
\* utility_functions.format_flight_offers_body
\* ---------------------------------------------------------------------
\* A faulty variant of AddDays: the day of departure is counted as the first
\* day of the trip, so the date lands one day late.
RECURSIVE AddDays_Inclusive(_, _)
AddDays_Inclusive(date, n) ==
    IF n < 0 THEN date
    ELSE IF date.d < DaysInMonth(date.y, date.m)
         THEN AddDays_Inclusive([date EXCEPT !.d = date.d + 1], n - 1)
         ELSE IF date.m < 12
              THEN AddDays_Inclusive([y |-> date.y, m |-> date.m + 1, d |-> 1], n - 1)
              ELSE AddDays_Inclusive([y |-> date.y + 1, m |-> 1, d |-> 1], n - 1)

\* dep_date + datetime.timedelta(days = n).
RECURSIVE AddDays(_, _)
AddDays(date, n) ==
    IF n = 0 THEN date
    ELSE IF date.d < DaysInMonth(date.y, date.m)
         THEN AddDays([date EXCEPT !.d = date.d + 1], n - 1)
         ELSE IF date.m < 12
              THEN AddDays([y |-> date.y, m |-> date.m + 1, d |-> 1], n - 1)
              ELSE AddDays([y |-> date.y + 1, m |-> 1, d |-> 1], n - 1)

Leg(id, from, to, date, time) ==
    [id |-> id, originLocationCode |-> from, destinationLocationCode |-> to,
     departureDateTimeRange |-> [date |-> date, time |-> time]]

\* datetime.datetime.strptime(departure_date, "%Y-%m-%d") of line 37,
\* tabulated over the departure dates the states of the model carry: those a
\* pass starts with and those the utterances of the model name.
DepartureDates ==
    StartDates \cup {"2025-06-01", "2025-07-04", "2025-07-10", "2025-12-25"}

ParsedDeparture == [s \in DepartureDates |-> strptime(s, "%Y-%m-%d")]

\* A faulty variant of format_flight_offers_body: lines 36-47 are missing, so
\* the body never has a return leg.
format_flight_offers_body_OutboundOnly(currency_code, origin_location_code, destination_location_code, departure_date, trip_type, duration, cabin, max_flight_offers) ==
    Some([currencyCode |-> currency_code,
          originDestinations |->
            <<Leg("1", origin_location_code, destination_location_code,
                  departure_date, "10:00:00")>>,
          travelers |-> <<[id |-> "1", travelerType |-> "ADULT"]>>,
          sources |-> <<"GDS">>,
          searchCriteria |->
            [maxFlightOffers |-> max_flight_offers,
             flightFilters |->
               [cabinRestrictions |->
                  <<[cabin |-> cabin, coverage |-> "MOST_SEGMENTS",
                     originDestinationIds |-> <<"1">>]>>]]])

\* None stands for the exception strptime raises on line 37 (ValueError for
\* a date that does not parse, TypeError for a departure_date of None).
format_flight_offers_body(currency_code, origin_location_code, destination_location_code, departure_date, trip_type, duration, cabin, max_flight_offers) ==
    LET outbound == Leg("1", origin_location_code, destination_location_code,
                        departure_date, "10:00:00")
        round    == trip_type = "round_trip" /\ duration # None
        dep_date == IF departure_date = None THEN None
                    ELSE ParsedDeparture[departure_date[1]]
        legs     == IF round
                    THEN <<outbound,
                           Leg("2", destination_location_code,
                               origin_location_code,
                               Some(strftime(AddDays(dep_date[1], duration[1]))),
                               "10:00:00")>>
                    ELSE <<outbound>>
    IN  IF round /\ dep_date = None THEN None
        ELSE Some([currencyCode |-> currency_code,
                   originDestinations |-> legs,
                   travelers |-> <<[id |-> "1", travelerType |-> "ADULT"]>>,
                   sources |-> <<"GDS">>,
                   searchCriteria |->
                     [maxFlightOffers |-> max_flight_offers,
                      flightFilters |->
                        [cabinRestrictions |->
                           <<[cabin |-> cabin,
                              coverage |-> "MOST_SEGMENTS",
                              originDestinationIds |->
                                [i \in 1..Len(legs) |-> legs[i].id]]>>]]])

\* ---------------------------------------------------------------------
\* graph_nodes.call_flight_offers_api_node
\* ---------------------------------------------------------------------
\* Lines 108-117: the request body built from the state.
RequestBody(st) ==
    format_flight_offers_body(st.currency, st.origin, st.destination,
                              st.departure_date, st.trip_type, st.duration,
                              st.cabin_class, MaxFlightOffers)

SearchRequest(st, r) ==
    [endpoint |-> "search", token |-> st.amadeus_token[1],
     body |-> RequestBody(st)[1], response |-> r]

\* Lines 95-97.
SearchNoToken(st) ==
    [st EXCEPT !.last_error = Some("No valid Amadeus token available")]

\* A faulty variant of SearchFormatError: the exception is swallowed and
\* nothing is recorded.
SearchFormatError_Silent(st) == st

\* Lines 132-133: format_flight_offers_body raised before any request.
SearchFormatError(st) ==
    [st EXCEPT !.last_error =
       Some("Error calling flight offers API: " \o ErrorText("format_error"))]

\* A faulty variant of SearchFailed: the failure clears the offers.
SearchFailed_ClearsOffers(st, kind) ==
    [st EXCEPT !.flight_offers = <<>>,
               !.last_error = Some("API request failed: " \o ErrorText(kind))]

\* Lines 130-131: requests.post, raise_for_status or response.json raised a
\* RequestException; flight_offers is not assigned.
SearchFailed(st, kind) ==
    [st EXCEPT !.last_error = Some("API request failed: " \o ErrorText(kind))]

\* A faulty variant of SearchSucceeded: line 125 is missing, so an error of
\* an earlier stage survives a search that found offers.
SearchSucceeded_KeepsError(st, data) ==
    LET offers == IF data = None THEN <<>> ELSE data[1]
    IN  [st EXCEPT
           !.flight_offers = offers,
           !.last_error = IF offers = <<>>
                          THEN Some("No flight offers found for your search criteria")
                          ELSE @]

\* Lines 123-128: flight_data.get("data", []).
SearchSucceeded(st, data) ==
    LET offers == IF data = None THEN <<>> ELSE data[1]
    IN  [st EXCEPT
           !.flight_offers = offers,
           !.last_error = IF offers = <<>>
                          THEN Some("No flight offers found for your search criteria")
                          ELSE None]

SearchOutcome(r) ==
    IF r.kind # "ok" THEN r.kind
    ELSE IF r.data = None \/ r.data = Some(<<>>) THEN "empty"
    ELSE "found"

call_flight_offers_api_node ==
    /\ pc = "search_flights"
    /\ \/ /\ ~TruthyStr(state.amadeus_token)
          /\ state' = SearchNoToken(state)
          /\ outcome' = [outcome EXCEPT !.search = "no_token"]
          /\ UNCHANGED wire
       \/ /\ TruthyStr(state.amadeus_token)
          /\ RequestBody(state) = None
          /\ state' = SearchFormatError(state)
          /\ outcome' = [outcome EXCEPT !.search = "format_error"]
          /\ UNCHANGED wire
       \/ /\ TruthyStr(state.amadeus_token)
          /\ RequestBody(state) # None
          /\ \E r \in SearchResponses :
               /\ wire' = Append(wire, SearchRequest(state, r))
               /\ state' = IF r.kind = "ok" THEN SearchSucceeded(state, r.data)
                           ELSE SearchFailed(state, r.kind)
               /\ outcome' = [outcome EXCEPT !.search = SearchOutcome(r)]
    /\ pc' = NextNode("search_flights")
    /\ UNCHANGED <<now, env, turns>>

\* ---------------------------------------------------------------------
\* graph_nodes.analyze_offers_with_llm_node
\* ---------------------------------------------------------------------
NoOffersText == "No flight offers available to analyze."

FallbackText ==
    "I couldn't analyze the flight options right now, but I found some flights for you!"

\* A faulty variant of AnalyzeNoOffers: it clears last_error as the
\* successful analysis does.
AnalyzeNoOffers_ClearsError(st) ==
    [st EXCEPT !.llm_analysis = Some(NoOffersText), !.last_error = None]

\* Lines 141-143.
AnalyzeNoOffers(st) == [st EXCEPT !.llm_analysis = Some(NoOffersText)]

\* Lines 148-150.
AnalyzeNotConfigured(st) ==
    [st EXCEPT !.last_error = Some("OpenAI API key not configured")]

\* Lines 224-226.
AnalyzeFailed(st, kind) ==
    [st EXCEPT
       !.last_error = Some("Error analyzing flights with LLM: " \o ErrorText(kind)),
       !.llm_analysis = Some(FallbackText)]

\* Lines 221-222.
AnalyzeSucceeded(st, content) ==
    [st EXCEPT !.llm_analysis = content, !.last_error = None]

\* Line 156: the first three offers go into the prompt.
LlmRequest(st, r) ==
    [endpoint |-> "llm",
     offers |-> SubSeq(st.flight_offers, 1,
                       IF Len(st.flight_offers) < 3 THEN Len(st.flight_offers)
                       ELSE 3),
     response |-> r]

analyze_offers_with_llm_node ==
    /\ pc = "analyze_results"
    /\ \/ /\ state.flight_offers = <<>>
          /\ state' = AnalyzeNoOffers(state)
          /\ outcome' = [outcome EXCEPT !.llm = "no_offers"]
          /\ UNCHANGED wire
       \/ /\ state.flight_offers # <<>>
          /\ ~env.openai
          /\ state' = AnalyzeNotConfigured(state)
          /\ outcome' = [outcome EXCEPT !.llm = "not_configured"]
          /\ UNCHANGED wire
       \/ /\ state.flight_offers # <<>>
          /\ env.openai
          /\ \E r \in LlmResponses(turns) :
               /\ wire' = IF r.kind = "build_error" THEN wire
                          ELSE Append(wire, LlmRequest(state, r))
               /\ state' = IF r.kind = "ok" THEN AnalyzeSucceeded(state, r.content)
                           ELSE AnalyzeFailed(state, r.kind)
               /\ outcome' = [outcome EXCEPT
                                !.llm = IF r.kind = "ok" THEN "analyzed" ELSE r.kind]
    /\ pc' = NextNode("analyze_results")
    /\ UNCHANGED <<now, env, turns>>

\* ---------------------------------------------------------------------
\* graph_nodes.display_results_node
\* ---------------------------------------------------------------------
DisplayResult(st) == [st EXCEPT !.current_step = "results_ready"]

display_results_node ==
    /\ pc = "display_results"
    /\ state' = DisplayResult(state)
    /\ pc' = NextNode("display_results")
    /\ UNCHANGED <<now, env, wire, outcome, turns>>

\* ---------------------------------------------------------------------
\* The specification
\* ---------------------------------------------------------------------
Next ==
    \/ UserTurn
    \/ Invoke
    \/ collect_user_input_node
    \/ fetch_amadeus_token_node
    \/ call_flight_offers_api_node
    \/ analyze_offers_with_llm_node
    \/ display_results_node

Spec == Init /\ [][Next]_vars

\* ---------------------------------------------------------------------
\* One pass from any state
\* ---------------------------------------------------------------------
\* workflow.invoke takes the state its caller hands over, and every node
\* rebuilds it with FlightAssistantState.from_dict, which keeps whatever
\* values the keys carry: a field may come in unset ("" for the two string
\* fields), with a value no extraction would have produced (app.py, line 177,
\* stores the whole utterance as departure_date), or with the token and the
\* offers of earlier passes.
StartStates ==
    {[DefaultState EXCEPT
        !.origin = o, !.destination = d, !.departure_date = dd,
        !.trip_type = tt, !.duration = du, !.cabin_class = cc,
        !.amadeus_token = tok[1], !.token_expires_at = tok[2],
        !.flight_offers = fo,
        !.messages = <<[role |-> "user", content |-> Hello]>>] :
       o \in {None, Some("JFK")},
       d \in {None, Some("LHR")},
       dd \in {None} \cup {Some(x) : x \in StartDates},
       tt \in {"", "one_way", "round_trip"},
       du \in {None, Some(0), Some(5)},
       cc \in {"", "ECONOMY"},
       tok \in {<<None, None>>, <<Some("token0"), Some(1000)>>},
       fo \in {<<>>, <<"offer0">>}}

\* The state of a new conversation after its first message.
OpeningStates ==
    {[DefaultState EXCEPT !.messages = <<[role |-> "user", content |-> u]>>] :
       u \in Openings}

\* The moment workflow.invoke(state) is entered.
PassInit ==
    /\ state \in StartStates \cup OpeningStates \cup {DefaultState}
    /\ pc = EntryPoint
    /\ now = 0
    /\ env \in [amadeus : BOOLEAN, openai : BOOLEAN]
    /\ wire = <<>>
    /\ outcome = NotRun
    /\ turns = 1

\* The nodes of the graph, without the application around them.
PassNext ==
    \/ collect_user_input_node
    \/ fetch_amadeus_token_node
    \/ call_flight_offers_api_node
    \/ analyze_offers_with_llm_node
    \/ display_results_node

PassSpec == PassInit /\ [][PassNext]_vars

\* ---------------------------------------------------------------------
\* Properties
\* ---------------------------------------------------------------------
\* How many requests of the current pass went to endpoint e.
Calls(w, e) == Cardinality({i \in DOMAIN w : w[i].endpoint = e})

TokenFailures ==
    {"not_configured", "network_error", "http_error",
     "no_access_token", "no_expires_in"}

SearchFailures == {"network_error", "http_error"}

LlmFailures == {"not_configured", "build_error", "error"}

NoFlightsText == "No flight offers found for your search criteria"

\* C1: in a pass whose completeness check leaves missing_fields non-empty,
\* no request goes to the token endpoint and none to the flight search.
C1_NoRequestsWhenIncomplete ==
    (pc # "collect_input" /\ state.missing_fields # <<>>)
        => (Calls(wire, "token") = 0 /\ Calls(wire, "search") = 0)

\* C2 as claimed: the token stage sends nothing when the cached token has
\* more than 300 seconds left, and exactly one request when the token is
\* absent or has 300 seconds or less left, credentials configured or not.
C2_TokenCallsAsClaimed ==
    [][pc = "fetch_token" =>
         LET token   == state.amadeus_token
             expires == state.token_expires_at
             sent    == Calls(wire', "token") - Calls(wire, "token")
         IN  /\ (token # None /\ expires # None /\ expires[1] - now > 300)
                  => sent = 0
             /\ (token = None \/ (expires # None /\ expires[1] - now <= 300))
                  => sent = 1]_vars

\* C2 as amended: the single request is sent only when the client
\* credentials are configured; without them the stage sends nothing.
C2_TokenCalls ==
    [][pc = "fetch_token" =>
         LET token   == state.amadeus_token
             expires == state.token_expires_at
             sent    == Calls(wire', "token") - Calls(wire, "token")
         IN  /\ (token # None /\ expires # None /\ expires[1] - now > 300)
                  => sent = 0
             /\ (token = None \/ (expires # None /\ expires[1] - now <= 300))
                  => sent = (IF env.amadeus THEN 1 ELSE 0)]_vars

\* The token stage has run on a cached token with exactly 300 seconds left
\* and has sent one request, which failed.
C2_Witness ==
    /\ pc = "search_flights"
    /\ outcome.token = "http_error"
    /\ state.amadeus_token # None
    /\ state.token_expires_at = Some(now + 300)
    /\ Calls(wire, "token") = 1

\* C3: whenever the token stage fails, amadeus_token and token_expires_at
\* are what they were before the stage and last_error is a non-empty text.
C3_FailureLeavesTokenUntouched ==
    [][(pc = "fetch_token" /\ outcome'.token \in TokenFailures) =>
         /\ state'.amadeus_token = state.amadeus_token
         /\ state'.token_expires_at = state.token_expires_at
         /\ TruthyStr(state'.last_error)]_vars

\* C4: in a pass whose token stage fails, no flight-search request is sent
\* and no summarization call is made. (Stated for the failures that leave
\* the token fields as they were, on states whose token fields go together,
\* so that it does not rest on what C3 and C5 are about.)
C4_TokenFailureAbortsPass ==
    (/\ outcome.token \in TokenFailures \ {"no_expires_in"}
     /\ (state.amadeus_token = None) <=> (state.token_expires_at = None))
        => (Calls(wire, "search") = 0 /\ Calls(wire, "llm") = 0)

\* C5: amadeus_token and token_expires_at are both set or both unset.
C5_TokenAndExpiryTogether ==
    (state.amadeus_token = None) <=> (state.token_expires_at = None)

\* C6: when the search request fails in transport or with an error status,
\* flight_offers is what it was before the stage and last_error is a
\* non-empty text.
C6_SearchFailureKeepsOffers ==
    [][(pc = "search_flights" /\ outcome'.search \in SearchFailures) =>
         /\ state'.flight_offers = state.flight_offers
         /\ TruthyStr(state'.last_error)]_vars

\* The search request has failed in transport, with an exception whose text
\* is empty, while offers of an earlier pass are in the state.
C6_Witness ==
    /\ pc = "analyze_results"
    /\ outcome.search = "network_error"
    /\ state.flight_offers # <<>>
    /\ Calls(wire, "search") = 1

\* C7: when the search succeeds with a non-empty data list, flight_offers
\* is exactly that list and last_error is empty.
C7_SearchSuccessReplacesOffers ==
    (pc = "analyze_results" /\ outcome.search = "found") =>
        /\ state.flight_offers = wire[Len(wire)].response.data[1]
        /\ state.last_error = None

\* The search has succeeded in a pass whose token stage had failed and set
\* last_error, on a state that held other offers: the offers of the first
\* pass are replaced and the error is cleared.
C7_Witness ==
    /\ pc = "analyze_results"
    /\ outcome.search = "found"
    /\ outcome.token = "http_error"
    /\ turns = 2
    /\ state.llm_analysis = Some("analysis1")
    /\ state.flight_offers = <<"offer1">>
    /\ state.last_error = None

\* C8: when the search succeeds with an empty data list, at the end of the
\* pass last_error is the no-flights message, llm_analysis is the no-offers
\* literal, no summarization call was made and current_step = results_ready.
C8_ZeroOffers ==
    (pc = "idle" /\ outcome.search = "empty") =>
        /\ state.last_error = Some(NoFlightsText)
        /\ state.llm_analysis = Some("No flight offers available to analyze.")
        /\ Calls(wire, "llm") = 0
        /\ state.current_step = "results_ready"

\* A pass has ended whose search returned an empty list, on a state that
\* held offers and an analysis of an earlier pass.
C8_Witness ==
    /\ pc = "idle"
    /\ outcome.search = "empty"
    /\ wire[Len(wire)].response.data = Some(<<>>)
    /\ turns = 2
    /\ state.flight_offers = <<>>

\* C9: whenever flight_offers is non-empty and the summarizer fails, for
\* whatever reason, llm_analysis is the fallback message and the pass goes
\* on to the display stage.
C9_SummarizerFailureFallsBack ==
    (outcome.llm \in LlmFailures) =>
        /\ state.llm_analysis = Some(FallbackText)
        /\ pc \in {"display_results", "idle"}
        /\ pc = "idle" => state.current_step = "results_ready"

\* C10 as claimed: on a round-trip state with origin, destination and
\* departure_date set and no duration, and a latest utterance that supplies
\* no duration, the collect stage reports missing_fields = <<"duration">> and
\* current_step = "collect_missing".
C10_MissingDurationAsClaimed ==
    [][(/\ pc = "collect_input"
        /\ state.messages # <<>>
        /\ state.trip_type = "round_trip"
        /\ state.origin # None /\ state.destination # None
        /\ state.departure_date # None
        /\ state.duration = None
        /\ ExtractDuration(StrLower(state.messages[Len(state.messages)].content))
             = None) =>
         /\ state'.missing_fields = <<"duration">>
         /\ state'.current_step = "collect_missing"]_vars

\* C10 as amended: the same, for a latest utterance that does not select a
\* one-way trip either.
C10_MissingDuration ==
    [][(/\ pc = "collect_input"
        /\ state.messages # <<>>
        /\ state.trip_type = "round_trip"
        /\ state.origin # None /\ state.destination # None
        /\ state.departure_date # None
        /\ state.duration = None
        /\ LET low == StrLower(state.messages[Len(state.messages)].content)
           IN  /\ ExtractDuration(low) = None
               /\ ExtractTripType(low) # Some("one_way")) =>
         /\ state'.missing_fields = <<"duration">>
         /\ state'.current_step = "collect_missing"]_vars

\* The collect stage has run on a round-trip state with everything but the
\* duration, for an utterance that names only the cabin.
C10_Witness ==
    /\ pc = "fetch_token"
    /\ Len(state.messages) = 2
    /\ state.messages[1].content = "JFK LHR 2025-06-01 round trip"
    /\ state.messages[2].content = "business class please"
    /\ state.origin = Some("JFK") /\ state.destination = Some("LHR")
    /\ state.departure_date = Some("2025-06-01")
    /\ state.trip_type = "round_trip"
    /\ state.duration = None
    /\ state.missing_fields = <<"duration">>
    /\ state.current_step = "collect_missing"

\* The elements of a sequence.
Range(q) == {q[i] : i \in DOMAIN q}

\* The fields C11 names, and whether one of them is unset in st.
NamedFields == {"origin", "destination", "departure_date", "cabin_class", "trip_type"}

Unset(st, f) ==
    IF f \in {"cabin_class", "trip_type"} THEN st[f] = "" ELSE st[f] = None

RECURSIVE WordRun(_, _)
WordRun(s, i) ==
    IF i <= Len(s) /\ IsWordChar(Ch(s, i)) THEN 1 + WordRun(s, i + 1) ELSE 0

RECURSIVE WordsFrom(_, _)
WordsFrom(s, i) ==
    IF i > Len(s) THEN <<>>
    ELSE IF ~IsWordChar(Ch(s, i)) THEN WordsFrom(s, i + 1)
    ELSE LET n == WordRun(s, i)
         IN  <<SubSeq(s, i, i + n - 1)>> \o WordsFrom(s, i + n)

\* The 3-letter uppercase tokens of s, in order.
UpperTokens(s) ==
    SelectSeq(WordsFrom(s, 1),
              LAMBDA w : Len(w) = 3 /\ \A i \in 1..3 : IsUpperChar(Ch(w, i)))

\* The collect stage is about to run on a new conversation's first message.
FirstMessage ==
    /\ pc = "collect_input"
    /\ Len(state.messages) = 1
    /\ [state EXCEPT !.messages = <<>>] = DefaultState

\* C12: an utterance with exactly two distinct 3-letter uppercase tokens,
\* whatever words surround them, gives the first as origin and the second as
\* destination; an utterance with a single such token gives neither.
C12_CodesAsClaimed ==
    [][FirstMessage =>
         LET tokens == UpperTokens(state.messages[1].content)
         IN  /\ (Len(tokens) = 2 /\ tokens[1] # tokens[2]) =>
                  /\ state'.origin = Some(tokens[1])
                  /\ state'.destination = Some(tokens[2])
             /\ Len(tokens) = 1 =>
                  /\ state'.origin = None
                  /\ state'.destination = None]_vars

\* C13: from the default state, one turn with the scenario utterance extracts
\* origin JFK, destination LHR, departure date 2025-07-10, cabin BUSINESS and
\* a one-way trip, leaves missing_fields empty and goes on to the token stage.
C13_ScenarioAsClaimed ==
    [][(FirstMessage /\ state.messages[1].content = Scenario) =>
         /\ state'.origin = Some("JFK")
         /\ state'.destination = Some("LHR")
         /\ state'.departure_date = Some("2025-07-10")
         /\ state'.cabin_class = "BUSINESS"
         /\ state'.trip_type = "one_way"
         /\ state'.missing_fields = <<>>
         /\ pc' = "fetch_token"]_vars

\* The search request the step sends, if it sends one.
SendsSearch == pc = "search_flights" /\ Len(wire') = Len(wire) + 1

SentBody == wire'[Len(wire')].body

\* C14 as claimed: the body formatted for a round trip of 5 days leaving on
\* 2025-06-01 has a return leg dated 2025-06-07.
C14_ReturnDateAsClaimed ==
    [][(/\ SendsSearch
        /\ state.trip_type = "round_trip"
        /\ state.duration = Some(5)
        /\ state.departure_date = Some("2025-06-01")) =>
         /\ Len(SentBody.originDestinations) = 2
         /\ SentBody.originDestinations[2].departureDateTimeRange.date
              = Some("2025-06-07")]_vars

\* C14 as amended: the return leg is dated 2025-06-06, five days after the
\* departure.
C14_ReturnDate ==
    [][(/\ SendsSearch
        /\ state.trip_type = "round_trip"
        /\ state.duration = Some(5)
        /\ state.departure_date = Some("2025-06-01")) =>
         /\ Len(SentBody.originDestinations) = 2
         /\ SentBody.originDestinations[2].departureDateTimeRange.date
              = Some("2025-06-06")]_vars

\* A search request for a round trip of 5 days leaving on 2025-06-01 has
\* been sent.
C14_Witness ==
    /\ pc = "analyze_results"
    /\ state.trip_type = "round_trip"
    /\ state.duration = Some(5)
    /\ state.departure_date = Some("2025-06-01")
    /\ Calls(wire, "search") = 1
    /\ Len(wire[Len(wire)].body.originDestinations) = 2

\* The search parameters of st are resolved: the places and a departure date
\* in ISO form are there, the trip type is one of the two, and a round trip
\* has its duration.
Resolved(st) ==
    /\ st.origin # None /\ st.destination # None
    /\ st.departure_date # None
    /\ strptime(st.departure_date[1], "%Y-%m-%d") # None
    /\ st.trip_type \in {"one_way", "round_trip"}
    /\ st.trip_type = "round_trip" => st.duration # None

\* The days from 0001-01-01 to the date, by the calendar's arithmetic.
DayNumber(date) ==
    LET y == date.y - 1
        before == {m \in 1..12 : m < date.m}
        RECURSIVE Sum(_)
        Sum(S) == IF S = {} THEN 0
                  ELSE LET m == CHOOSE x \in S : TRUE
                       IN  DaysInMonth(date.y, m) + Sum(S \ {m})
    IN  365 * y + (y \div 4) - (y \div 100) + (y \div 400) + Sum(before) + date.d

DayOf(iso) == DayNumber(strptime(iso, "%Y-%m-%d")[1])

\* C15: for resolved inputs the body has one leg, origin to destination on
\* the departure date, for a one-way trip; for a round trip it has two, the
\* second from destination to origin, duration days after the departure and
\* at the same time of day; the cabin restriction lists the id of every leg.
C15_Legs ==
    [][(SendsSearch /\ Resolved(state)) =>
         LET legs == SentBody.originDestinations
             ids  == SentBody.searchCriteria.flightFilters
                       .cabinRestrictions[1].originDestinationIds
         IN  /\ legs[1].originLocationCode = state.origin
             /\ legs[1].destinationLocationCode = state.destination
             /\ legs[1].departureDateTimeRange.date = state.departure_date
             /\ state.trip_type = "one_way" => Len(legs) = 1
             /\ state.trip_type = "round_trip" =>
                  /\ Len(legs) = 2
                  /\ legs[2].originLocationCode = state.destination
                  /\ legs[2].destinationLocationCode = state.origin
                  /\ DayOf(legs[2].departureDateTimeRange.date[1])
                       = DayOf(state.departure_date[1]) + state.duration[1]
                  /\ legs[2].departureDateTimeRange.time
                       = legs[1].departureDateTimeRange.time
             /\ ids = [i \in 1..Len(legs) |-> legs[i].id]]_vars

\* A request for a round trip that returns in the next year has been sent.
C15_Witness ==
    /\ pc = "analyze_results"
    /\ Resolved(state)
    /\ state.trip_type = "round_trip"
    /\ state.departure_date = Some("2024-12-30")
    /\ state.duration = Some(5)
    /\ Calls(wire, "search") = 1
    /\ wire[Len(wire)].body.originDestinations[2].departureDateTimeRange.date
         = Some("2025-01-04")

\* What each date word is: the notation it is written in (1 for YYYY-MM-DD,
\* 2 for MM/DD/YYYY, 3 for MM-DD-YYYY) and the calendar date it names, if
\* it names one.
DateFacts ==
    [w \in DateWords |->
       CASE w = "2025-06-01" -> [notation |-> 1, iso |-> Some("2025-06-01")]
         [] w = "2025-02-30" -> [notation |-> 1, iso |-> None]
         [] w = "7/4/2025"   -> [notation |-> 2, iso |-> Some("2025-07-04")]
         [] w = "13/45/2025" -> [notation |-> 2, iso |-> None]
         [] w = "12-25-2025" -> [notation |-> 3, iso |-> Some("2025-12-25")]
         [] w = "02-30-2025" -> [notation |-> 3, iso |-> None]]

\* The first word of ws written in notation k, <<>> if there is none.
FirstIn(ws, k) ==
    LET hits == SelectSeq(ws, LAMBDA w : DateFacts[w].notation = k)
    IN  IF hits = <<>> THEN None ELSE Some(hits[1])

\* The date C16 expects for the words ws, trying the notations from k on.
RECURSIVE ExpectedDate(_, _)
ExpectedDate(ws, k) ==
    IF k > 3 THEN None
    ELSE LET first == FirstIn(ws, k)
         IN  IF first # None /\ DateFacts[first[1]].iso # None
             THEN DateFacts[first[1]].iso
             ELSE ExpectedDate(ws, k + 1)

\* C16: the notations are tried in the order YYYY-MM-DD, MM/DD/YYYY,
\* MM-DD-YYYY; the first one whose first match is a real calendar date gives
\* departure_date in the form YYYY-MM-DD; a first match that is no date
\* passes the turn to the next notation; with no date at all departure_date
\* is not set.
C16_DateOrder ==
    [][(FirstMessage /\ state.messages[1].content \in DatePhrases) =>
         LET words == CHOOSE ws \in UNION {[1..k -> DateWords] : k \in 1..MaxWords} :
                        Join(ws) = state.messages[1].content
         IN  state'.departure_date = ExpectedDate(words, 1)]_vars

\* The collect stage has run on an utterance whose ISO-shaped date and
\* slash-shaped date are both impossible, and took the third notation.
C16_Witness ==
    /\ pc = "fetch_token"
    /\ Len(state.messages) = 1
    /\ state.messages[1].content = "13/45/2025 12-25-2025 2025-02-30"
    /\ state.departure_date = Some("2025-12-25")

\* C17: in every state reached by turns of the conversation, duration is
\* unset or a strictly positive integer.
C17_DurationPositive ==
    state.duration = None \/ state.duration[1] > 0

\* C18: when the search stage runs with a token, a round trip with its
\* duration and a departure_date that does not parse as YYYY-MM-DD, no
\* search request is sent, last_error gets a non-empty description,
\* flight_offers keeps its value and the pass goes on to the next stage.
C18_FormatFailureCaught ==
    [][(/\ pc = "search_flights"
        /\ TruthyStr(state.amadeus_token)
        /\ state.trip_type = "round_trip"
        /\ state.duration # None
        /\ state.departure_date # None
        /\ strptime(state.departure_date[1], "%Y-%m-%d") = None) =>
         /\ wire' = wire
         /\ TruthyStr(state'.last_error)
         /\ state'.flight_offers = state.flight_offers
         /\ pc' = "analyze_results"]_vars

\* The search stage has met the departure date "june 2025" on a round trip
\* of 5 days, with offers of an earlier pass in the state.
C18_Witness ==
    /\ pc = "analyze_results"
    /\ outcome.search = "format_error"
    /\ state.trip_type = "round_trip"
    /\ state.duration = Some(5)
    /\ state.departure_date = Some("june 2025")
    /\ state.flight_offers = <<"offer0">>
    /\ Calls(wire, "search") = 0
    /\ TruthyStr(state.last_error)

\* C19: in a pass whose search request fails while flight_offers holds the
\* offers of an earlier pass, the summarizer runs on those offers, and when
\* it succeeds last_error still holds the description of the search failure
\* at the end of the pass. Stated for passes with complete fields and a
\* good token.
C19_SearchErrorSurvives ==
    (/\ pc = "idle"
     /\ state.missing_fields = <<>>
     /\ outcome.token \in {"reused", "fetched"}
     /\ outcome.search \in SearchFailures
     /\ state.flight_offers # <<>>
     /\ env.openai) =>
        /\ outcome.llm \in {"analyzed", "build_error", "error"}
        /\ outcome.llm = "analyzed" =>
             state.last_error
               = Some("API request failed: " \o ErrorText(outcome.search))

\* The stages in the order C20 gives them, END last.
StageOrder ==
    <<"collect_input", "fetch_token", "search_flights", "analyze_results",
      "display_results", "idle">>

Rank(n) == CHOOSE i \in DOMAIN StageOrder : StageOrder[i] = n

\* C20: every pass terminates, from any state and whatever the external
\* calls answer: before END some stage can always run, and each step leads
\* from a stage to the next one of the fixed order, so that no stage runs
\* twice and END is reached after five steps; the pass ends with
\* current_step = results_ready.
C20_PassTerminates ==
    /\ [](pc # "idle" => ENABLED PassNext)
    /\ [][Rank(pc') = Rank(pc) + 1]_vars
    /\ [](pc = "idle" => state.current_step = "results_ready")

\* A pass with complete fields and a cached token has ended after a failed
\* search and a failed summarization.
C20_Witness ==
    /\ pc = "idle"
    /\ state.missing_fields = <<>>
    /\ state.current_step = "results_ready"
    /\ outcome.token = "reused"
    /\ outcome.search \in SearchFailures
    /\ outcome.llm = "error"

\* The search parameters C21 names.
SearchParameters ==
    {"origin", "destination", "departure_date", "trip_type", "duration",
     "cabin_class", "travelers", "currency"}

\* C21: no stage of the pipeline changes messages; the stages after the
\* collect stage leave the search parameters as they were; and on a state
\* without messages the collect stage changes nothing but current_step.
C21_Frame ==
    [][/\ pc # "idle" => state'.messages = state.messages
       /\ pc \in {"fetch_token", "search_flights", "analyze_results",
                  "display_results"} =>
            \A f \in SearchParameters : state'[f] = state[f]
       /\ (pc = "collect_input" /\ state.messages = <<>>) =>
            state' = [state EXCEPT !.current_step = state'.current_step]]_vars

\* A first pass has run on a state without messages and has left a token
\* and an error in it; a second one has run without messages again, and its
\* collect stage has set current_step back from results_ready to greeting.
C21_Witness ==
    /\ pc = "fetch_token"
    /\ turns = 2
    /\ state.messages = <<>>
    /\ state.amadeus_token # None
    /\ state.last_error # None
    /\ state.current_step = "greeting"

====
